---- MODULE Spec2Model ----
(***************************************************************************)
(* The matchmaking / match-lifecycle engine of server.js (lines 1-338):    *)
(* per-mode waiting queues, the match registry, makeMove, rejoinMatch,     *)
(* leaveMatch / disconnect with the 10 s grace timer, and the lobbyStats   *)
(* broadcast.  Every socket handler runs to completion, so every handler   *)
(* (and every timer callback) is one action.                               *)
(*                                                                         *)
(* Strings the code splits or joins (puzzle, solution, cell values) are    *)
(* sequences of one-character strings; identifiers (socket ids, persistent *)
(* ids, modes, reasons) are plain strings.  A missing / falsy argument     *)
(* (undefined, "") is the empty string.                                    *)
(***************************************************************************)
EXTENDS Integers, Sequences, FiniteSets, TLC

\* ------------------------------------------------------------ bounds
\* number of socket connections the server accepts in a run
MaxConn == 3
\* number of match ids; SpecPair creates that many matches (ids are never reused)
MaxMatches == 2
\* number of cells of a board (the code's boards have 16, 36 or 81 cells)
Cells == 3
\* number of cells the generator leaves filled (the code: 8, 18, or curated)
Clues == 2
\* number of accepted makeMove writes in a run of Spec
MaxMoves == 2
\* number of accepted makeMove writes in a run of SpecPlay
PlayMoves == 2
\* number of clues of a curated 9x9 puzzle in SpecNine (the package that
\* serves them is not part of the repository): NineClues - 1 .. NineClues + 1
NineClues == 31
\* number of random streams a run of generateCustom is checked with
MaxSeed == 12

\* ------------------------------------------------------------ constants
Modes == {"4", "6", "9", "9expert"}
Slots == {"p1", "p2"}
SocketIds == {ToString(i) : i \in 1..MaxConn}
MatchIds == 1..MaxMatches
Blank == <<"-">>
Hole == <<>>
Digit == <<"1", "2", "3", "4">>

\* The solved board the generators produce: one digit per cell.
Solution == [i \in 1..Cells |-> Digit[((i - 1) % 4) + 1]]

\* ------------------------------------------------------------ inputs
\* modes a client asks for ("x" is an unrecognised mode)
ModeInputs == {"4", "9", "x"}
\* the requests among them that are served from the "9" queue
NineInputs == {"9", "x"}
\* the playerId a connection's client sends: the browser behind connections 1
\* and 3 holds the persistent id "a", every other client sends none
PlayerIdInputs(s) == IF s \in {"1", "3"} THEN {"a"} ELSE {""}
NameInputs == {""}
\* the playerId of a request when the client may send any: none, or "a"
IdInputs == {"", "a"}
\* connections whose client holds a saved session and asks to rejoin: the
\* connections after the first two
RejoinSockets == {ToString(i) : i \in 3..MaxConn}
\* moves of Spec: the right digit into a blank cell, or clearing the first cell
MoveInputs ==
  {[index |-> i - 1, value |-> <<Solution[i]>>] : i \in (Clues + 1)..Cells}
  \cup {[index |-> 0, value |-> <<>>]}
\* moves of SpecPlay: into any cell the right digit or a wrong digit (the next
\* cell's); no value for the first cell; one past the end a digit
PlayInputs ==
  UNION {{[index |-> i - 1, value |-> v] :
            v \in {<<Solution[i]>>, <<Solution[(i % Cells) + 1]>>}} :
         i \in 1..Cells}
  \cup {[index |-> 0, value |-> <<>>], [index |-> Cells, value |-> <<Solution[1]>>]}

VARIABLES
  conn,           \* socket id -> "new" | "connected" | "disconnected"
  waitingQueues,  \* mode -> sequence of tickets [id, pid, name]
  matches,        \* the registry: match id -> match record (a Map)
  created,        \* number of match ids handed out so far
  timers,         \* match id -> slot -> number of pending grace timers
  rooms,          \* match id -> socket ids joined to the match's room
  lobbyStats,     \* the last lobbyStats snapshot broadcast
  out,            \* events emitted by the last handler, in order
  gameOvers,      \* match id -> number of gameOver events emitted for it
  moves,          \* number of accepted makeMove writes so far
  gen,            \* the run of generateCustom in progress: its locals and call stack
  gameState       \* socket id -> the screen its client shows (page.tsx's gameState)

vars == <<conn, waitingQueues, matches, created, timers, rooms, lobbyStats,
          out, gameOvers, moves, gen, gameState>>

\* ------------------------------------------------------------ strings
\* Array.prototype.join(""): the concatenation of the elements (a hole joins
\* as the empty string)
RECURSIVE Join(_)
Join(arr) == IF arr = <<>> THEN <<>> ELSE Head(arr) \o Join(Tail(arr))

\* String.prototype.split(""): one element per character
Split(str) == [i \in 1..Len(str) |-> <<str[i]>>]

\* NonBlank that counts every cell
NonBlankAll(arr) == Len(arr)

\* arr.filter(c => c !== "-").length: holes are skipped by filter
NonBlank(arr) == Cardinality({i \in 1..Len(arr) : arr[i] # Blank /\ arr[i] # Hole})

\* value || fallback
OrElse(value, fallback) == IF value = "" THEN fallback ELSE value

\* arr[index] = v for a 0-based index >= 0: in range it overwrites, at or past
\* the end the array grows (the skipped positions are holes)
ArraySet(arr, index, v) ==
  IF index < Len(arr)
  THEN [arr EXCEPT ![index + 1] = v]
  ELSE [i \in 1..(index + 1) |-> IF i <= Len(arr) THEN arr[i]
                                 ELSE IF i = index + 1 THEN v ELSE Hole]

\* ------------------------------------------------------------ puzzles
\* generateCustom's blanking: the first (cells - clues) positions of a random
\* permutation are blanked, i.e. any set of that many positions.
generateCustom ==
  { [puzzle |-> [i \in 1..Cells |-> IF i \in B THEN "-" ELSE Solution[i]],
     solution |-> Solution] :
    B \in {X \in SUBSET (1..Cells) : Cardinality(X) = Cells - Clues} }

\* getSudoku(difficulty) of the sudoku-gen package: a curated puzzle
getSudoku ==
  { [puzzle |-> [i \in 1..Cells |-> IF i > Clues THEN "-" ELSE Solution[i]],
     solution |-> Solution] }

\* a 9x9 board: the length of getSudoku's puzzle and solution strings
NineCells == 81
NineSolution == [i \in 1..NineCells |-> Digit[((i - 1) % 4) + 1]]

\* getSudoku("medium") at full size: a solved board with its first cells given
getSudokuNine ==
  { [puzzle |-> [i \in 1..NineCells |-> IF i > c THEN "-" ELSE NineSolution[i]],
     solution |-> NineSolution] : c \in (NineClues - 1)..(NineClues + 1) }

\* ------------------------------------------------------------ generateCustom, step by step
\* (the boards here are the code's: size x size cells, 0 for an empty cell)
\* Math.floor(Math.random() * n) at the k-th call of Math.random(): the
\* random numbers of one run are a stream picked by the seed
Random(seed, k, n) == ((seed * (7 * k + 3) + k * k + (seed \div 3)) % 1009) % n

\* [arr[i], arr[j]] = [arr[j], arr[i]] on a 1-based sequence, i and j 0-based
Swap(arr, i, j) ==
  CHOOSE swapped \in {[a EXCEPT ![i + 1] = a[j + 1], ![j + 1] = a[i + 1]] : a \in {arr}} : TRUE

\* shuffle(arr), from position i down: for (i = arr.length - 1; i > 0; i--)
\* with j = Math.floor(Math.random() * (i + 1)); k counts the draws made
RECURSIVE shuffleFrom(_, _, _, _)
shuffleFrom(arr, i, seed, k) ==
  IF i <= 0 THEN arr
  ELSE shuffleFrom(Swap(arr, i, Random(seed, k, i + 1)), i - 1, seed, k + 1)

shuffle(arr, seed, k) == shuffleFrom(arr, Len(arr) - 1, seed, k)

\* isValid without the test of the box
isValidRowCol(dim, board, row, col, num) ==
  /\ \A c \in 0..(dim.size - 1) : board[row][c] # num
  /\ \A r \in 0..(dim.size - 1) : board[r][col] # num

\* isValid(board, row, col, num): num is in neither the row, the column nor
\* the box of the cell
isValid(dim, board, row, col, num) ==
  LET br == (row \div dim.boxRows) * dim.boxRows
      bc == (col \div dim.boxCols) * dim.boxCols
  IN /\ \A c \in 0..(dim.size - 1) : board[row][c] # num
     /\ \A r \in 0..(dim.size - 1) : board[r][col] # num
     /\ \A r \in br..(br + dim.boxRows - 1), c \in bc..(bc + dim.boxCols - 1) :
          board[r][c] # num

\* the row-major position of the first cell that holds 0, size * size if none
FirstEmpty(dim, board) ==
  LET empty == {p \in 0..(dim.size * dim.size - 1) :
                  board[p \div dim.size][p % dim.size] = 0}
  IN IF empty = {} THEN dim.size * dim.size
     ELSE CHOOSE p \in empty : \A q \in empty : p <= q

\* board.flat(): the rows one after the other
Flat(dim, board) ==
  [i \in 1..(dim.size * dim.size) |-> board[(i - 1) \div dim.size][(i - 1) % dim.size]]

\* Removed with the loop left one turn late: removed > targetRemove
RemovedLate(positions, targetRemove) ==
  {positions[i] : i \in 1..(IF targetRemove + 1 < Len(positions) THEN targetRemove + 1
                              ELSE Len(positions))}

\* the positions the blanking loop sets to 0: the first targetRemove of the
\* shuffled positions
Removed(positions, targetRemove) ==
  {positions[i] : i \in 1..(IF targetRemove < Len(positions) THEN targetRemove
                              ELSE Len(positions))}

\* CellChar without the blank marker
CellCharPlain(v) == ToString(v)

\* v === 0 ? "-" : String(v)
CellChar(v) == IF v = 0 THEN "-" ELSE ToString(v)

\* Puzzle that reads every kept cell from the cell after it
PuzzleShifted(flat, gone) ==
  [i \in 1..Len(flat) |->
     CellChar(IF (i - 1) \in gone THEN 0 ELSE flat[(i % Len(flat)) + 1])]

\* puzzleBoard.flat().map(...).join("") after the blanking loop
Puzzle(flat, gone) ==
  [i \in 1..Len(flat) |-> CellChar(IF (i - 1) \in gone THEN 0 ELSE flat[i])]

\* no run of generateCustom is in progress
Idle ==
  [pc |-> "idle", size |-> 0, boxRows |-> 0, boxCols |-> 0, clues |-> 0, seed |-> 0,
   k |-> 0, board |-> <<>>, stack |-> <<>>, ok |-> FALSE,
   puzzle |-> <<>>, solution |-> <<>>]

\* generatePuzzle(mode): the possible results
generatePuzzle(mode) ==
  IF mode \in {"4", "6"} THEN generateCustom ELSE getSudoku \cup getSudokuNine

\* ------------------------------------------------------------ lobby stats
\* A JavaScript Number is an IEEE-754 double: a sign and a significand of 53
\* bits, every operation rounded to the nearest double, ties to even. A double
\* is kept here as [sign, shift, h, l1, l2, l3], the number
\*   sign * (h * Limb^3 + l1 * Limb^2 + l2 * Limb + l3) / 2^(39 + shift)
\* with three limbs of 13 bits under a head h.
Limb == 8192

\* the shift that brings n / d into [2^13, 2^14): the head then has 14 bits
RECURSIVE Normal(_, _, _)
Normal(n, d, shift) ==
  IF n * 2^shift >= Limb * d THEN shift ELSE Normal(n, d, shift + 1)

\* the digits [h, l1, l2, l3] plus one in the last place
Succ(x) ==
  LET c3 == x.l3 + 1
      c2 == x.l2 + (c3 \div Limb)
      c1 == x.l1 + (c2 \div Limb)
  IN [x EXCEPT !.l3 = c3 % Limb, !.l2 = c2 % Limb, !.l1 = c1 % Limb,
               !.h = x.h + (c1 \div Limb)]

\* a / b for integers a and b > 0 with |a| / b < 2^14: long division to 53
\* bits, the rest rounded to nearest, ties to even
Quotient(a, b) ==
  IF a = 0 THEN [sign |-> 0, shift |-> 0, h |-> 0, l1 |-> 0, l2 |-> 0, l3 |-> 0]
  ELSE LET n == IF a < 0 THEN 0 - a ELSE a
           shift == Normal(n, b, 0)
           r0 == (n * 2^shift) % b
           r1 == (r0 * Limb) % b
           r2 == (r1 * Limb) % b
           r3 == (r2 * Limb) % b
           down == [sign |-> IF a < 0 THEN 0 - 1 ELSE 1, shift |-> shift,
                    h |-> (n * 2^shift) \div b, l1 |-> (r0 * Limb) \div b,
                    l2 |-> (r1 * Limb) \div b, l3 |-> (r2 * Limb) \div b]
       IN IF 2 * r3 > b \/ (2 * r3 = b /\ down.l3 % 2 = 1) THEN Succ(down) ELSE down

\* x * 100: the exact product has 59 or 60 bits, of which the low 6 or 7 are
\* rounded away, to nearest, ties to even
Times100(x) ==
  LET c3 == x.l3 * 100
      c2 == x.l2 * 100 + (c3 \div Limb)
      c1 == x.l1 * 100 + (c2 \div Limb)
      exact == [x EXCEPT !.l3 = c3 % Limb, !.l2 = c2 % Limb, !.l1 = c1 % Limb,
                         !.h = x.h * 100 + (c1 \div Limb)]
      drop == IF exact.h < 128 * Limb THEN 2^6 ELSE 2^7
      low == exact.l3 % drop
      kept == [exact EXCEPT !.l3 = exact.l3 - low]
      up == 2 * low > drop \/ (2 * low = drop /\ (exact.l3 \div drop) % 2 = 1)
      c3r == kept.l3 + drop
      c2r == kept.l2 + (c3r \div Limb)
      c1r == kept.l1 + (c2r \div Limb)
  IN IF x.sign = 0 THEN x
     ELSE IF up THEN [kept EXCEPT !.l3 = c3r % Limb, !.l2 = c2r % Limb, !.l1 = c1r % Limb,
                                  !.h = kept.h + (c1r \div Limb)]
     ELSE kept

\* Math.floor(x)
Floor(x) ==
  LET whole == x.h \div 2^(x.shift)
      fraction == x.h % 2^(x.shift) # 0 \/ x.l1 # 0 \/ x.l2 # 0 \/ x.l3 # 0
  IN IF x.sign >= 0 THEN x.sign * whole
     ELSE IF fraction THEN 0 - whole - 1 ELSE 0 - whole

\* totalToFill > 0 ? Math.floor((filled / totalToFill) * 100) : 0
Pct(filled, totalToFill) ==
  IF totalToFill > 0 THEN Floor(Times100(Quotient(filled, totalToFill))) ELSE 0

LiveMatch(id, m) ==
  [id |-> id, mode |-> m.mode,
   p1Progress |-> Pct(NonBlank(m.p1.progress) - m.initialFilled,
                      Len(m.puzzle) - m.initialFilled),
   p2Progress |-> Pct(NonBlank(m.p2.progress) - m.initialFilled,
                      Len(m.puzzle) - m.initialFilled)]

RECURSIVE SumLen(_, _)
SumLen(qs, ms) ==
  IF ms = {} THEN 0
  ELSE LET k == CHOOSE x \in ms : TRUE IN Len(qs[k]) + SumLen(qs, ms \ {k})

\* the snapshot broadcastLobbyStats computes from the queues and the registry
Snapshot(qs, ms) ==
  [activeMatches |-> Cardinality(DOMAIN ms),
   waitingPlayers |-> SumLen(qs, Modes),
   waitingByMode |-> [k \in Modes |-> Len(qs[k])],
   liveMatches |-> {LiveMatch(id, ms[id]) : id \in {i \in DOMAIN ms : ms[i].status = "playing"}}]

\* ------------------------------------------------------------ helpers
Other(slot) == IF slot = "p1" THEN "p2" ELSE "p1"

\* Finish that leaves the match in the registry, still playing
FinishNothing(ms, id) == ms

\* Finish without matches.delete(matchId)
FinishKept(ms, id) == [ms EXCEPT ![id].status = "finished"]

\* match.status = "finished"; ...; matches.delete(matchId)
Finish(ms, id) ==
  LET done == [ms EXCEPT ![id].status = "finished"]
  IN [i \in (DOMAIN done) \ {id} |-> done[i]]

RECURSIVE FinishAll(_, _)
FinishAll(ms, ids) ==
  IF ids = {} THEN ms
  ELSE LET id == CHOOSE x \in ids : TRUE IN FinishAll(Finish(ms, id), ids \ {id})

\* GameOver sent to the winner alone instead of the room
GameOverToWinner(id, winner, winnerName, reason) ==
  [type |-> "gameOver", matchId |-> id, to |-> {winner}, winner |-> winner,
   winnerName |-> winnerName, reason |-> reason]

\* io.to(matchId).emit("gameOver", ...): delivered to the sockets in the room
GameOver(id, winner, winnerName, reason) ==
  [type |-> "gameOver", matchId |-> id, to |-> rooms[id], winner |-> winner,
   winnerName |-> winnerName, reason |-> reason]

\* finishMatch that takes the winner from the losing slot
finishMatchLoser(id, winnerKey, reason) ==
  GameOver(id, matches[id][Other(winnerKey)].id, matches[id][Other(winnerKey)].name, reason)

\* finishMatch(matchId, match, winnerKey, reason): the gameOver it emits
finishMatch(id, winnerKey, reason) ==
  GameOver(id, matches[id][winnerKey].id, matches[id][winnerKey].name, reason)

\* the slot a socket id is bound to (p1 is tested first), "" for none
\* KeyOf without the null outcome: a socket that is not p1 counts as p2
KeyOfLoose(match, s) ==
  IF match.p1.id = s THEN "p1" ELSE "p2"

KeyOf(match, s) ==
  IF match.p1.id = s THEN "p1" ELSE IF match.p2.id = s THEN "p2" ELSE ""

\* KeyOfPid that takes whoever is not p1 for p2
KeyOfPidLoose(match, playerId) ==
  IF match.p1.pid = playerId THEN "p1" ELSE "p2"

\* the slot a persistent id belongs to (p1 is tested first), "" for none
KeyOfPid(match, playerId) ==
  IF match.p1.pid = playerId THEN "p1" ELSE IF match.p2.pid = playerId THEN "p2" ELSE ""

\* IsComplete that only asks for a board with no blank cell
IsCompleteFilled(progress, solution) == NonBlank(progress) = Len(solution)

\* player.progress.join("") === match.solution
IsComplete(progress, solution) == Join(progress) = solution

\* Rebind that also hands the slot a fresh copy of the puzzle
RebindReset(match, playerKey, s) ==
  [match EXCEPT ![playerKey].id = s,
                ![playerKey].progress = Split(match.puzzle),
                !.timeouts[playerKey] = FALSE]

\* player.id = socket.id; delete match.timeouts[playerKey]
Rebind(match, playerKey, s) ==
  [match EXCEPT ![playerKey].id = s, !.timeouts[playerKey] = FALSE]

\* ClearTimeout without the clearTimeout call
ClearTimeoutForgotten(tm, match, matchId, playerKey) == tm

\* clearTimeout(match.timeouts[playerKey]) when the slot holds a timer handle
ClearTimeout(tm, match, matchId, playerKey) ==
  IF match.timeouts[playerKey] THEN [tm EXCEPT ![matchId][playerKey] = @ - 1] ELSE tm

\* ------------------------------------------------------------ initial state
Init ==
  /\ conn = [s \in SocketIds |-> "new"]
  /\ waitingQueues = [k \in Modes |-> <<>>]
  /\ matches = <<>>
  /\ created = 0
  /\ timers = [id \in MatchIds |-> [k \in Slots |-> 0]]
  /\ rooms = [id \in MatchIds |-> {}]
  /\ lobbyStats = Snapshot([k \in Modes |-> <<>>], <<>>)
  /\ out = <<>>
  /\ gameOvers = [id \in MatchIds |-> 0]
  /\ moves = 0
  /\ gen = Idle
  /\ gameState = [s \in SocketIds |-> "idle"]

\* ------------------------------------------------------------ connection
\* io.on("connection"): the handlers are installed and the stats broadcast
Connect(s) ==
  /\ conn[s] = "new"
  /\ \E i \in 1..MaxConn : s = ToString(i) /\ \A j \in 1..(i - 1) : conn[ToString(j)] # "new"
  /\ conn' = [conn EXCEPT ![s] = "connected"]
  /\ lobbyStats' = Snapshot(waitingQueues, matches)
  /\ out' = <<>>
  /\ UNCHANGED <<waitingQueues, matches, created, timers, rooms, gameOvers, moves, gen, gameState>>

\* ------------------------------------------------------------ findMatch
\* the ticket the self-pair branch pushes: queue.push({ id: socket.id, pid, name })
Requeued(opponent, ticket) == ticket

\* Waiting that emits nothing
WaitingSilent(s, gridMode) == <<>>

\* socket.emit("waiting", { mode: gridMode })
Waiting(s, gridMode) == <<[type |-> "waiting", to |-> {s}, mode |-> gridMode]>>

\* Popped that leaves the candidate in the queue
PoppedNothing(queue) == queue

\* the queue after queue.pop()
Popped(queue) == SubSeq(queue, 1, Len(queue) - 1)

\* GridMode that sends an unrecognised mode to the first queue
GridModeFirst(mode) == IF mode \in Modes THEN mode ELSE "4"

\* ["4", "6", "9", "9expert"].includes(mode) ? mode : "9"
GridMode(mode) == IF mode \in Modes THEN mode ELSE "9"

FindMatch(s, mode, name, playerId, g) ==
  /\ conn[s] = "connected"
  /\ LET gridMode == GridMode(mode)
         playerName == OrElse(name, "Anonymous")
         pid == OrElse(playerId, s)
         queue == waitingQueues[gridMode]
         ticket == [id |-> s, pid |-> pid, name |-> playerName]
     IN IF Len(queue) > 0
        THEN LET opponent == queue[Len(queue)]
                 popped == Popped(queue)
             IN IF opponent.pid = pid
                THEN /\ waitingQueues' = [waitingQueues EXCEPT ![gridMode] =
                                                  Append(popped, Requeued(opponent, ticket))]
                     /\ out' = <<>>
                     /\ UNCHANGED <<matches, created, rooms, lobbyStats>>
                ELSE LET matchId == created + 1
                           match == [id |-> matchId, mode |-> gridMode,
                                     puzzle |-> g.puzzle, solution |-> g.solution,
                                     initialFilled |-> NonBlank(Split(g.puzzle)),
                                     p1 |-> [id |-> opponent.id, pid |-> opponent.pid,
                                             name |-> opponent.name,
                                             progress |-> Split(g.puzzle)],
                                     p2 |-> [id |-> s, pid |-> pid, name |-> playerName,
                                             progress |-> Split(g.puzzle)],
                                     status |-> "playing",
                                     timeouts |-> [k \in Slots |-> FALSE]]
                           found(to, role, oppName) ==
                             [type |-> "matchFound", to |-> {to}, matchId |-> matchId,
                              puzzle |-> g.puzzle, mode |-> gridMode, player |-> role,
                              opponentName |-> oppName]
                           opponentSocket == conn[opponent.id] = "connected"
                           qs == [waitingQueues EXCEPT ![gridMode] = popped]
                           ms == (matchId :> match) @@ matches
                       IN /\ g \in generatePuzzle(gridMode)
                          /\ matchId \in MatchIds
                          /\ waitingQueues' = qs
                          /\ matches' = ms
                          /\ created' = matchId
                          /\ rooms' = [rooms EXCEPT ![matchId] =
                                (IF opponentSocket THEN {opponent.id} ELSE {}) \cup {s}]
                          /\ out' = (IF opponentSocket
                                     THEN <<found(opponent.id, "p1", playerName)>>
                                     ELSE <<>>)
                                    \o <<found(s, "p2", opponent.name)>>
                          /\ lobbyStats' = Snapshot(qs, ms)
        ELSE LET qs == [waitingQueues EXCEPT ![gridMode] = Append(queue, ticket)]
             IN /\ waitingQueues' = qs
                /\ out' = Waiting(s, gridMode)
                /\ lobbyStats' = Snapshot(qs, matches)
                /\ UNCHANGED <<matches, created, rooms>>
  /\ UNCHANGED <<conn, timers, gameOvers, moves, gen, gameState>>

\* ------------------------------------------------------------ rejoinMatch
RejoinMatch(s, matchId, playerId) ==
  /\ conn[s] = "connected"
  /\ IF matchId \notin DOMAIN matches
     THEN /\ out' = <<[type |-> "error", to |-> {s}, message |-> "Match not found or expired"]>>
          /\ UNCHANGED <<matches, timers, rooms, lobbyStats>>
     ELSE LET match == matches[matchId]
              playerKey == KeyOfPid(match, playerId)
          IN IF playerKey = ""
             THEN /\ out' = <<[type |-> "error", to |-> {s},
                               message |-> "Not a participant in this match"]>>
                  /\ UNCHANGED <<matches, timers, rooms, lobbyStats>>
             ELSE LET opponent == match[Other(playerKey)]
                      ms == [matches EXCEPT ![matchId] = Rebind(match, playerKey, s)]
                  IN /\ matches' = ms
                     /\ timers' = ClearTimeout(timers, match, matchId, playerKey)
                     /\ rooms' = [rooms EXCEPT ![matchId] = @ \cup {s}]
                     /\ out' = <<[type |-> "matchFound", to |-> {s}, matchId |-> matchId,
                                  puzzle |-> match.puzzle, mode |-> match.mode,
                                  player |-> playerKey, opponentName |-> opponent.name,
                                  currentProgress |-> ms[matchId][playerKey].progress,
                                  opponentFilled |-> NonBlank(opponent.progress)
                                                     - match.initialFilled]>>
                     /\ lobbyStats' = Snapshot(waitingQueues, ms)
  /\ UNCHANGED <<conn, waitingQueues, created, gameOvers, moves, gen, gameState>>

\* ------------------------------------------------------------ makeMove
\* Write into one array shared by both slots
WriteShared(ms, matchId, playerKey, written) ==
  [ms EXCEPT ![matchId].p1.progress = written, ![matchId].p2.progress = written]

\* player.progress[index] = ...: the slot's own array takes the write
Write(ms, matchId, playerKey, written) ==
  [ms EXCEPT ![matchId][playerKey].progress = written]

\* PlayerProgress whose filled count takes only the cells that agree with the
\* solution
PlayerProgressCorrect(matchId, s, written, index, value) ==
  [type |-> "playerProgress", matchId |-> matchId, to |-> rooms[matchId],
   playerId |-> s,
   filled |-> Cardinality({i \in 1..Len(written) :
                i <= Len(matches[matchId].solution)
                /\ written[i] = <<matches[matchId].solution[i]>>}),
   initialFilled |-> matches[matchId].initialFilled,
   cellIndex |-> index,
   cleared |-> (value = <<>>)]

\* io.to(matchId).emit("playerProgress", { playerId, filled, initialFilled,
\* cellIndex, cleared }) of the progress branch
PlayerProgress(matchId, s, written, index, value) ==
  [type |-> "playerProgress", matchId |-> matchId, to |-> rooms[matchId],
   playerId |-> s,
   filled |-> NonBlank(written),
   initialFilled |-> matches[matchId].initialFilled,
   cellIndex |-> index,
   cleared |-> (value = <<>>)]

MakeMove(s, matchId, index, value) ==
  /\ conn[s] = "connected"
  /\ IF matchId \notin DOMAIN matches \/ matches[matchId].status # "playing"
     THEN /\ out' = <<>>
          /\ UNCHANGED <<matches, rooms, lobbyStats, gameOvers, moves>>
     ELSE LET match == matches[matchId]
              playerKey == KeyOf(match, s)
          IN IF playerKey = ""
             THEN /\ out' = <<>>
                  /\ UNCHANGED <<matches, rooms, lobbyStats, gameOvers, moves>>
             ELSE LET player == match[playerKey]
                      written == ArraySet(player.progress, index,
                                          IF value = <<>> THEN Blank ELSE value)
                      moved == Write(matches, matchId, playerKey, written)
                  IN /\ moves' = moves + 1
                     /\ IF IsComplete(written, match.solution)
                        THEN LET over == GameOver(matchId, s, player.name, "solved")
                                 ms == Finish(moved, matchId)
                             IN /\ matches' = ms
                                /\ out' = <<over>>
                                /\ gameOvers' = [gameOvers EXCEPT ![matchId] = @ + 1]
                                /\ rooms' = [rooms EXCEPT ![matchId] = {}]
                                /\ lobbyStats' = Snapshot(waitingQueues, ms)
                        ELSE /\ matches' = moved
                             /\ out' = <<PlayerProgress(matchId, s, written, index, value)>>
                             /\ lobbyStats' = Snapshot(waitingQueues, moved)
                             /\ UNCHANGED <<rooms, gameOvers>>
  /\ UNCHANGED <<conn, waitingQueues, created, timers, gen, gameState>>

\* ------------------------------------------------------------ leave / disconnect
\* RemoveFirst that takes nothing out
RemoveFirstKept(q, s) == q

\* RemoveFirst without the test of findIndex's result: q.splice(-1, 1) drops
\* the last ticket when the socket owns none
RECURSIVE RemoveFirstUnchecked(_, _)
RemoveFirstUnchecked(q, s) ==
  IF q = <<>> THEN <<>>
  ELSE IF Head(q).id = s THEN Tail(q)
  ELSE IF Tail(q) = <<>> THEN <<>>
  ELSE <<Head(q)>> \o RemoveFirstUnchecked(Tail(q), s)

\* q.findIndex(p => p.id === socketId) and q.splice(i, 1): the first ticket the
\* socket owns is removed
RECURSIVE RemoveFirst(_, _)
RemoveFirst(q, s) ==
  IF q = <<>> THEN <<>>
  ELSE IF Head(q).id = s THEN Tail(q)
  ELSE <<Head(q)>> \o RemoveFirst(Tail(q), s)

\* the matches handleLeave acts on: the socket is bound to a slot, status playing
Bound(s) ==
  {id \in DOMAIN matches : KeyOf(matches[id], s) # "" /\ matches[id].status = "playing"}

\* LeaveReason with a reason of its own for the explicit leave
LeaveReasonLeft == "opponent_left"

\* the reason handleLeave(socketId, true) passes to finishMatch
LeaveReason == "opponent_disconnected"

\* the gameOver events of handleLeave(socketId, true), in registry order
RECURSIVE LeaveEvents(_, _)
LeaveEvents(i, s) ==
  IF i > MaxMatches THEN <<>>
  ELSE (IF i \in Bound(s)
        THEN <<finishMatch(i, Other(KeyOf(matches[i], s)), LeaveReason)>>
        ELSE <<>>) \o LeaveEvents(i + 1, s)

\* the timers after handleLeave(socketId, false): one more for every bound slot
StartTimers(tm, s) ==
  [id \in MatchIds |-> [k \in Slots |->
     IF id \in Bound(s) /\ k = KeyOf(matches[id], s) THEN tm[id][k] + 1 ELSE tm[id][k]]]

\* statsChanged that forgets the tickets taken out of the queues
StatsChangedByMatch(qs, immediate, hit) == immediate /\ hit # {}

\* handleLeave's statsChanged flag: a ticket was spliced out of a queue, or a
\* match was finished at once
StatsChanged(qs, immediate, hit) ==
  qs # waitingQueues \/ (immediate /\ hit # {})

handleLeave(s, immediate) ==
  LET qs == [k \in Modes |-> RemoveFirst(waitingQueues[k], s)]
      hit == Bound(s)
      ms == IF immediate
            THEN FinishAll(matches, hit)
            ELSE [id \in DOMAIN matches |->
                    IF id \in hit
                    THEN [matches[id] EXCEPT !.timeouts[KeyOf(matches[id], s)] = TRUE]
                    ELSE matches[id]]
      statsChanged == StatsChanged(qs, immediate, hit)
  IN /\ waitingQueues' = qs
     /\ matches' = ms
     /\ timers' = IF immediate THEN timers ELSE StartTimers(timers, s)
     /\ out' = IF immediate THEN LeaveEvents(1, s) ELSE <<>>
     /\ gameOvers' = IF immediate
                     THEN [id \in MatchIds |->
                             IF id \in hit THEN gameOvers[id] + 1 ELSE gameOvers[id]]
                     ELSE gameOvers
     /\ lobbyStats' = IF statsChanged THEN Snapshot(qs, ms) ELSE lobbyStats

\* socket.on("leaveMatch")
LeaveMatch(s) ==
  /\ conn[s] = "connected"
  /\ handleLeave(s, TRUE)
  /\ rooms' = [id \in MatchIds |-> IF id \in Bound(s) THEN {} ELSE rooms[id]]
  /\ UNCHANGED <<conn, created, moves, gen, gameState>>

\* Disconnect that forfeits at once, as an explicit leave does
DisconnectAtOnce(s) ==
  /\ conn[s] = "connected"
  /\ conn' = [conn EXCEPT ![s] = "disconnected"]
  /\ handleLeave(s, TRUE)
  /\ rooms' = [id \in MatchIds |-> IF id \in Bound(s) THEN {} ELSE rooms[id] \ {s}]
  /\ UNCHANGED <<created, moves, gen, gameState>>

\* socket.on("disconnect"): the socket has left its rooms
Disconnect(s) ==
  /\ conn[s] = "connected"
  /\ conn' = [conn EXCEPT ![s] = "disconnected"]
  /\ handleLeave(s, FALSE)
  /\ rooms' = [id \in MatchIds |-> rooms[id] \ {s}]
  /\ UNCHANGED <<created, moves, gen, gameState>>

\* the setTimeout callback of a grace timer started for (matchId, playerKey)
GraceTimer(matchId, playerKey) ==
  /\ timers[matchId][playerKey] > 0
  /\ timers' = [timers EXCEPT ![matchId][playerKey] = @ - 1]
  /\ IF matchId \in DOMAIN matches /\ matches[matchId].status = "playing"
     THEN LET over == finishMatch(matchId, Other(playerKey), "opponent_disconnected")
              ms == Finish(matches, matchId)
          IN /\ matches' = ms
             /\ out' = <<over>>
             /\ gameOvers' = [gameOvers EXCEPT ![matchId] = @ + 1]
             /\ rooms' = [rooms EXCEPT ![matchId] = {}]
             /\ lobbyStats' = Snapshot(waitingQueues, ms)
     ELSE /\ out' = <<>>
          /\ UNCHANGED <<matches, gameOvers, rooms, lobbyStats>>
  /\ UNCHANGED <<conn, waitingQueues, created, moves, gen, gameState>>

\* ------------------------------------------------------------ the client (page.tsx)
\* the sequence without its i-th element
Drop(events, i) == SubSeq(events, 1, i - 1) \o SubSeq(events, i + 1, Len(events))

\* the events of the last handler the clients have still to take: "waiting" and
\* "matchFound" are the ones that change the screen
Undelivered ==
  {i \in 1..Len(out) : out[i].type \in {"waiting", "matchFound"}}

\* s.on("waiting", () => setGameState("waiting"))
OnWaiting(s) ==
  /\ conn[s] = "connected"
  /\ \E i \in Undelivered :
       /\ out[i].type = "waiting" /\ out[i].to = {s}
       /\ out' = Drop(out, i)
  /\ gameState' = [gameState EXCEPT ![s] = "waiting"]
  /\ UNCHANGED <<conn, waitingQueues, matches, created, timers, rooms, lobbyStats,
                 gameOvers, moves, gen>>

\* s.on("matchFound", ...): the board is set up and setGameState("playing")
OnMatchFound(s) ==
  /\ conn[s] = "connected"
  /\ \E i \in Undelivered :
       /\ out[i].type = "matchFound" /\ out[i].to = {s}
       /\ \A j \in Undelivered : out[j].to = {s} => i <= j
       /\ out' = Drop(out, i)
  /\ gameState' = [gameState EXCEPT ![s] = "playing"]
  /\ UNCHANGED <<conn, waitingQueues, matches, created, timers, rooms, lobbyStats,
                 gameOvers, moves, gen>>

\* the Cancel button of the waiting screen: onClick={() => setGameState("idle")},
\* nothing is sent to the server
Cancel(s) ==
  /\ gameState[s] = "waiting"
  /\ gameState' = [gameState EXCEPT ![s] = "idle"]
  /\ UNCHANGED <<conn, waitingQueues, matches, created, timers, rooms, lobbyStats,
                 out, gameOvers, moves, gen>>

\* ------------------------------------------------------------ generateCustom: the run
\* the streams of random numbers
Seeds == 1..MaxSeed

Dim(g) == [size |-> g.size, boxRows |-> g.boxRows, boxCols |-> g.boxCols]

\* generateCustom(size, boxRows, boxCols, clues) is called: the board is filled
\* with 0 and solve(board) is entered
GenerateCustom(size, boxRows, boxCols, clues, seed) ==
  /\ gen.pc = "idle"
  /\ gen' = [Idle EXCEPT !.pc = "solve", !.size = size, !.boxRows = boxRows,
                         !.boxCols = boxCols, !.clues = clues, !.seed = seed,
                         !.board = [r \in 0..(size - 1) |-> [c \in 0..(size - 1) |-> 0]]]
  /\ UNCHANGED <<conn, waitingQueues, matches, created, timers, rooms, lobbyStats,
                 out, gameOvers, moves, gameState>>

\* generatePuzzle(mode) for the modes served by generateCustom
GeneratePuzzle(mode, seed) ==
  IF mode = "4" THEN GenerateCustom(4, 2, 2, 8, seed) ELSE GenerateCustom(6, 2, 3, 18, seed)

\* solve(board) is entered: with no empty cell it returns true, and so does
\* every call above it; otherwise the candidates of the first empty cell are
\* shuffled and the loop over them starts
SolveCall ==
  /\ gen.pc = "solve"
  /\ LET p == FirstEmpty(Dim(gen), gen.board)
         nums == shuffle([n \in 1..gen.size |-> n], gen.seed, gen.k)
     IN gen' = IF p = gen.size * gen.size
               THEN [gen EXCEPT !.pc = "blank", !.ok = TRUE, !.stack = <<>>]
               ELSE [gen EXCEPT !.pc = "try", !.k = @ + gen.size - 1,
                                !.stack = Append(@, [p |-> p, nums |-> nums, i |-> 1])]
  /\ UNCHANGED <<conn, waitingQueues, matches, created, timers, rooms, lobbyStats,
                 out, gameOvers, moves, gameState>>

\* Retreat that abandons the whole search at the first dead end
GiveUp(g) == [g EXCEPT !.pc = "blank", !.ok = FALSE, !.stack = <<>>]

\* return false: the call above empties its cell and goes on with its next
\* candidate; with no call above, solve has failed
Retreat(g) ==
  LET above == SubSeq(g.stack, 1, Len(g.stack) - 1)
  IN IF above = <<>> THEN [g EXCEPT !.pc = "blank", !.ok = FALSE, !.stack = <<>>]
     ELSE LET caller == above[Len(above)]
          IN [g EXCEPT !.pc = "try",
                       !.stack = [above EXCEPT ![Len(above)].i = @ + 1],
                       !.board[caller.p \div g.size][caller.p % g.size] = 0]

\* one turn of the loop "for (const n of nums)" of the innermost call
SolveTry ==
  /\ gen.pc = "try"
  /\ LET top == gen.stack[Len(gen.stack)]
         r == top.p \div gen.size
         c == top.p % gen.size
     IN gen' = IF top.i > Len(top.nums) THEN Retreat(gen)
               ELSE IF isValid(Dim(gen), gen.board, r, c, top.nums[top.i])
               THEN [gen EXCEPT !.board[r][c] = top.nums[top.i], !.pc = "solve"]
               ELSE [gen EXCEPT !.stack[Len(gen.stack)].i = @ + 1]
  /\ UNCHANGED <<conn, waitingQueues, matches, created, timers, rooms, lobbyStats,
                 out, gameOvers, moves, gameState>>

\* the rest of generateCustom: the solution string, the blanking loop over the
\* shuffled positions, the puzzle string
Blanking ==
  /\ gen.pc = "blank"
  /\ LET cells == gen.size * gen.size
         flat == Flat(Dim(gen), gen.board)
         positions == shuffle([i \in 1..cells |-> i - 1], gen.seed, gen.k)
         gone == Removed(positions, cells - gen.clues)
     IN gen' = [gen EXCEPT !.pc = "done", !.k = @ + cells - 1,
                           !.solution = [i \in 1..cells |-> ToString(flat[i])],
                           !.puzzle = Puzzle(flat, gone)]
  /\ UNCHANGED <<conn, waitingQueues, matches, created, timers, rooms, lobbyStats,
                 out, gameOvers, moves, gameState>>

\* ------------------------------------------------------------ specifications
\* The whole engine through the life of the server's first match: every
\* connection asks for a 9x9 board (by name or by an unrecognised mode); moves
\* fill blank cells with the right digit or clear the first cell; the
\* generator's draw is the curated blanking.
Next ==
  \/ \E s \in SocketIds : Connect(s)
  \/ \E s \in SocketIds, mode \in NineInputs, name \in NameInputs, g \in getSudoku :
       \E playerId \in PlayerIdInputs(s) :
         FindMatch(s, mode, name, playerId, g) /\ created' <= 1
  \/ \E s \in RejoinSockets, matchId \in MatchIds :
       \E playerId \in PlayerIdInputs(s) : RejoinMatch(s, matchId, playerId)
  \/ \E s \in SocketIds, matchId \in MatchIds, mv \in MoveInputs :
       MakeMove(s, matchId, mv.index, mv.value) /\ moves' <= MaxMoves
  \/ \E s \in SocketIds : LeaveMatch(s)
  \/ \E s \in SocketIds : Disconnect(s)
  \/ \E matchId \in MatchIds, playerKey \in Slots : GraceTimer(matchId, playerKey)

Spec == Init /\ [][Next]_vars

\* Two connections race on one generator-drawn board: any cell index (one past
\* the end included) and any digit of the board or no value.
PlaySockets == {"1", "2"}

NextPlay ==
  \/ \E s \in PlaySockets : Connect(s)
  \/ \E s \in PlaySockets, name \in NameInputs, g \in generateCustom :
       \E playerId \in PlayerIdInputs(s) :
         FindMatch(s, "4", name, playerId, g) /\ created' <= 1
  \/ \E s \in PlaySockets, matchId \in MatchIds, mv \in PlayInputs :
       MakeMove(s, matchId, mv.index, mv.value) /\ moves' <= PlayMoves

SpecPlay == Init /\ [][NextPlay]_vars

\* Pairing over and over: every connection, one mode, up to MaxMatches matches,
\* no moves.
NextPair ==
  \/ \E s \in SocketIds : Connect(s)
  \/ \E s \in SocketIds, name \in NameInputs, g \in getSudoku :
       \E playerId \in PlayerIdInputs(s) :
         FindMatch(s, "9", name, playerId, g) /\ created' <= MaxMatches
  \/ \E s \in SocketIds : LeaveMatch(s)
  \/ \E s \in SocketIds : Disconnect(s)
  \/ \E matchId \in MatchIds, playerKey \in Slots : GraceTimer(matchId, playerKey)

SpecPair == Init /\ [][NextPair]_vars

\* Waiting: every connection asks for any mode, leaves or disconnects, until
\* the first pairing.
NextQueue ==
  \/ \E s \in SocketIds : Connect(s)
  \/ \E s \in SocketIds, mode \in ModeInputs, name \in NameInputs, g \in generateCustom \cup getSudoku :
       \E playerId \in PlayerIdInputs(s) :
         FindMatch(s, mode, name, playerId, g) /\ created' <= 1
  \/ \E s \in SocketIds : LeaveMatch(s)
  \/ \E s \in SocketIds : Disconnect(s)
  \/ \E matchId \in MatchIds, playerKey \in Slots : GraceTimer(matchId, playerKey)

SpecQueue == Init /\ [][NextQueue]_vars

\* The engine through the life of the first match with two connections that
\* may send any playerId with any request (one connection may use several).
NextIds ==
  \/ \E s \in PlaySockets : Connect(s)
  \/ \E s \in PlaySockets, name \in NameInputs, g \in getSudoku, playerId \in IdInputs :
       FindMatch(s, "9", name, playerId, g) /\ created' <= 1
  \/ \E s \in PlaySockets, matchId \in MatchIds, playerId \in IdInputs :
       RejoinMatch(s, matchId, playerId)
  \/ \E s \in PlaySockets, matchId \in MatchIds, mv \in MoveInputs :
       MakeMove(s, matchId, mv.index, mv.value) /\ moves' <= MaxMoves
  \/ \E s \in PlaySockets : LeaveMatch(s)
  \/ \E s \in PlaySockets : Disconnect(s)
  \/ \E matchId \in MatchIds, playerKey \in Slots : GraceTimer(matchId, playerKey)

SpecIds == Init /\ [][NextIds]_vars

\* Clients at the lobby: each connection's client asks for a match from its
\* idle screen, takes the server's answer and may cancel the wait; the server
\* handles a request once the answers to the last one have been taken.
NextCancel ==
  \/ \E s \in SocketIds : Connect(s) /\ Undelivered = {}
  \/ \E s \in SocketIds, mode \in ModeInputs, name \in NameInputs, g \in generateCustom \cup getSudoku :
       \E playerId \in PlayerIdInputs(s) :
         /\ gameState[s] = "idle" /\ Undelivered = {}
         /\ FindMatch(s, mode, name, playerId, g) /\ created' <= 1
  \/ \E s \in SocketIds : OnWaiting(s)
  \/ \E s \in SocketIds : OnMatchFound(s)
  \/ \E s \in SocketIds : Cancel(s)

SpecCancel == Init /\ [][NextCancel]_vars

\* The engine of Spec with every grace timer firing unless it is cancelled:
\* a setTimeout callback that stays scheduled is run.
SpecFair ==
  Spec /\ \A matchId \in MatchIds, playerKey \in Slots :
            WF_vars(GraceTimer(matchId, playerKey))

\* the move a client makes next: the right digit into its first blank cell
FillInputs(match, s) ==
  LET progress == IF KeyOf(match, s) = "" THEN <<>> ELSE match[KeyOf(match, s)].progress
      blanks == {i \in 1..Len(progress) : progress[i] = Blank}
  IN {[index |-> i - 1, value |-> <<match.solution[i]>>] :
        i \in {j \in blanks : \A k \in blanks : j <= k}}

\* A race on a full-size curated board: two connections are paired in mode
\* "9" and the one paired last fills its blank cells in order with the right
\* digits while its opponent thinks.
NextNine ==
  \/ \E s \in PlaySockets : Connect(s)
  \/ \E s \in PlaySockets, name \in NameInputs, g \in getSudokuNine :
       \E playerId \in PlayerIdInputs(s) :
         FindMatch(s, "9", name, playerId, g) /\ created' <= 1
  \/ \E matchId \in DOMAIN matches :
       \E mv \in FillInputs(matches[matchId], matches[matchId].p2.id) :
         MakeMove(matches[matchId].p2.id, matchId, mv.index, mv.value)

SpecNine == Init /\ [][NextNine]_vars

\* Two matches side by side: the two connections are paired, ask again and are
\* paired again; two moves go to either match.
NextTwo ==
  \/ \E s \in PlaySockets : Connect(s)
  \/ \E s \in PlaySockets, name \in NameInputs, g \in getSudoku :
       \E playerId \in PlayerIdInputs(s) :
         FindMatch(s, "9", name, playerId, g) /\ created' <= 2
  \/ \E s \in PlaySockets, matchId \in MatchIds, mv \in PlayInputs :
       MakeMove(s, matchId, mv.index, mv.value) /\ moves' <= 2

SpecTwo == Init /\ [][NextTwo]_vars

\* One call of generatePuzzle for a generator-backed mode, step by step,
\* with any of the random streams.
NextGen ==
  \/ \E mode \in {"4", "6"}, seed \in Seeds : GeneratePuzzle(mode, seed)
  \/ SolveCall
  \/ SolveTry
  \/ Blanking

SpecGen == Init /\ [][NextGen]_vars

\* The same with the run going on: the code is a loop that is never suspended.
SpecGenFair == SpecGen /\ WF_vars(SolveCall) /\ WF_vars(SolveTry) /\ WF_vars(Blanking)

\* ------------------------------------------------------------ claim helpers
\* a gameOver event for match id is among the events of the last handler
Emitted(events, id) ==
  {i \in 1..Len(events) : events[i].type = "gameOver" /\ events[i].matchId = id}

\* the socket ids bound to the two slots of a match
SlotIds(match) == {match.p1.id, match.p2.id}

\* cell by cell, the array holds exactly the solution's digits
Reproduces(progress, solution) ==
  /\ Len(progress) = Len(solution)
  /\ \A i \in 1..Len(solution) : progress[i] = <<solution[i]>>

\* the array a move leaves in the mover's slot
AfterWrite(match, s, mv) ==
  ArraySet(match[KeyOf(match, s)].progress, mv.index,
           IF mv.value = <<>> THEN Blank ELSE mv.value)

\* a makeMove by a bound connection on a match of the registry that makes the
\* mover's progress reproduce the solution
SolvingMove(s, id, mv) ==
  /\ id \in DOMAIN matches
  /\ KeyOf(matches[id], s) # ""
  /\ Reproduces(AfterWrite(matches[id], s, mv), matches[id].solution)
  /\ MakeMove(s, id, mv.index, mv.value)

\* what the solving move emits and does, but for who receives it
SolvedOnce(s, id) ==
  /\ Len(out') = 1
  /\ out'[1].type = "gameOver" /\ out'[1].matchId = id
  /\ out'[1].reason = "solved" /\ out'[1].winner = s
  /\ gameOvers'[id] = 1
  /\ id \notin DOMAIN matches'

\* once a gameOver was emitted for a match, no further one is, and a rejoin
\* for its id is answered with the NotFound error
GoneForGood(id) ==
  gameOvers[id] >= 1 =>
    /\ gameOvers'[id] = gameOvers[id]
    /\ id \notin DOMAIN matches'
    /\ \A s \in RejoinSockets : \A playerId \in PlayerIdInputs(s) :
         RejoinMatch(s, id, playerId) =>
           out' = <<[type |-> "error", to |-> {s},
                     message |-> "Match not found or expired"]>>

\* ------------------------------------------------------------ C1
\* C1 as stated: the move that reproduces the solution emits exactly one
\* gameOver "solved" naming the mover, delivered to the connections of both
\* slots, removes the match in the same step, and later rejoins get NotFound.
C1_DeliveredToBothSlots ==
  [][\A id \in MatchIds :
       /\ \A s \in SocketIds, mv \in MoveInputs :
            SolvingMove(s, id, mv) =>
              SolvedOnce(s, id) /\ SlotIds(matches[id]) \subseteq out'[1].to
       /\ GoneForGood(id)]_vars

\* C1 amended: as above, and the gameOver is delivered to the connection of
\* every slot whose connection is still connected (a slot in its grace period
\* has no connection to deliver to).
C1_SolvedOnce ==
  [][\A id \in MatchIds :
       /\ \A s \in SocketIds, mv \in MoveInputs :
            SolvingMove(s, id, mv) =>
              /\ SolvedOnce(s, id)
              /\ {c \in SlotIds(matches[id]) : conn[c] = "connected"} \subseteq out'[1].to
       /\ GoneForGood(id)]_vars

\* a match was solved while the other slot was in its grace period
C1_Witness ==
  /\ Len(out) = 1 /\ out[1].type = "gameOver" /\ out[1].reason = "solved"
  /\ out[1].to = {out[1].winner}
  /\ gameOvers[out[1].matchId] = 1
  /\ out[1].matchId \notin DOMAIN matches
  /\ timers[out[1].matchId] # [k \in Slots |-> 0]

\* ------------------------------------------------------------ C3
\* C3: every match in the registry is Playing, a match that got its gameOver
\* is out of the registry, and the broadcast active-match count equals the
\* number of live-match entries.
C3_RegistryAllPlaying ==
  /\ \A id \in DOMAIN matches : matches[id].status = "playing"
  /\ \A id \in MatchIds : gameOvers[id] >= 1 => id \notin DOMAIN matches
  /\ lobbyStats.activeMatches = Cardinality(lobbyStats.liveMatches)

\* a match was finished and removed, and the stats were broadcast after it
C3_Witness ==
  /\ gameOvers[1] = 1
  /\ 1 \notin DOMAIN matches
  /\ created = 1
  /\ lobbyStats.activeMatches = 0

\* ------------------------------------------------------------ C4
Tickets == UNION {{<<k, i>> : i \in 1..Len(waitingQueues[k])} : k \in Modes}

\* C4: a persistent id owns at most one waiting ticket across all queues.
C4_OneTicketPerPid ==
  \A t, u \in Tickets :
    waitingQueues[t[1]][t[2]].pid = waitingQueues[u[1]][u[2]].pid => t = u

\* ------------------------------------------------------------ C7
\* the slot of a match whose connection is gone and whose grace timer is pending
InGrace(id, k) ==
  /\ id \in DOMAIN matches
  /\ timers[id][k] > 0
  /\ conn[matches[id][k].id] = "disconnected"

\* C7: a rejoin by the slot's persistent id during the grace period leaves the
\* match Playing, replies with the slot's progress as it was, and changes only
\* the slot's connection id and timer; while a slot is in its grace period its
\* progress does not change.
C7_RejoinInGrace ==
  [][\A id \in MatchIds :
       /\ \A s \in RejoinSockets : \A playerId \in PlayerIdInputs(s) :
            LET k == KeyOfPid(matches[id], playerId)
            IN (/\ id \in DOMAIN matches
                /\ k # ""
                /\ InGrace(id, k)
                /\ RejoinMatch(s, id, playerId))
               => /\ DOMAIN matches' = DOMAIN matches
                  /\ matches'[id].status = "playing"
                  /\ matches'[id] = [matches[id] EXCEPT ![k].id = s,
                                                        !.timeouts[k] = FALSE]
                  /\ \A j \in DOMAIN matches \ {id} : matches'[j] = matches[j]
                  /\ timers'[id][k] = 0
                  /\ Len(out') = 1
                  /\ out'[1].type = "matchFound" /\ out'[1].to = {s}
                  /\ out'[1].currentProgress = matches[id][k].progress
       /\ \A k \in Slots :
            InGrace(id, k) /\ id \in DOMAIN matches'
            => matches'[id][k].progress = matches[id][k].progress]_vars

\* connection 3 has just rejoined a match in which its slot had moved, after
\* connection 1 went away
C7_Witness ==
  /\ Len(out) = 1 /\ out[1].type = "matchFound"
  /\ "currentProgress" \in DOMAIN out[1]
  /\ out[1].currentProgress # Split(out[1].puzzle)
  /\ out[1].matchId \in DOMAIN matches
  /\ matches[out[1].matchId][out[1].player].id = "3"
  /\ conn["1"] = "disconnected"
  /\ timers[out[1].matchId] = [k \in Slots |-> 0]

\* ------------------------------------------------------------ C9
\* C9 as stated: an explicit leaveMatch by a bound connection finishes the
\* match at once, starts no timer, and the gameOver's reason is "opponent_left".
C9_ReasonOpponentLeft ==
  [][\A s \in SocketIds : \A id \in Bound(s) :
       LeaveMatch(s) =>
         /\ id \notin DOMAIN matches'
         /\ timers' = timers
         /\ Cardinality(Emitted(out', id)) = 1
         /\ \A i \in Emitted(out', id) : out'[i].reason = "opponent_left"]_vars

\* C9 amended: an explicit leaveMatch by a bound connection finishes the match
\* at once, starts no timer, and the gameOver's reason is
\* "opponent_disconnected" (the reason the grace-timer forfeit uses too).
C9_LeaveForfeitsAtOnce ==
  [][\A s \in SocketIds : \A id \in Bound(s) :
       LeaveMatch(s) =>
         /\ id \notin DOMAIN matches'
         /\ timers' = timers
         /\ gameOvers'[id] = 1
         /\ Cardinality(Emitted(out', id)) = 1
         /\ \A i \in Emitted(out', id) : out'[i].reason = "opponent_disconnected"]_vars

\* a match was forfeited with no grace timer ever started for it
C9_Witness ==
  /\ Len(out) = 1 /\ out[1].type = "gameOver"
  /\ out[1].reason = "opponent_disconnected"
  /\ out[1].matchId \notin DOMAIN matches
  /\ timers[out[1].matchId] = [k \in Slots |-> 0]
  /\ \A s \in SocketIds : conn[s] # "disconnected"

\* ------------------------------------------------------------ C10
\* C10: a slot never has more than one pending grace timer, the slot's timer
\* handle is set exactly while its timer is pending, and no disconnect hits a
\* slot whose timer is pending (so none starts a second timer).
C10_OneTimerPerSlot ==
  /\ [](\A id \in MatchIds, k \in Slots :
          /\ timers[id][k] <= 1
          /\ id \in DOMAIN matches => (matches[id].timeouts[k] <=> timers[id][k] = 1))
  /\ [][\A s \in SocketIds : \A id \in Bound(s) :
          Disconnect(s) => timers[id][KeyOf(matches[id], s)] = 0]_vars

\* the slot that connection 3 took over is in a grace period of its own
C10_Witness ==
  \E id \in DOMAIN matches, k \in Slots :
    /\ timers[id][k] = 1
    /\ matches[id][k].id = "3"
    /\ conn["1"] = "disconnected"
    /\ conn["3"] = "disconnected"

\* ------------------------------------------------------------ C2
\* C2: a makeMove by a bound connection finishes the match exactly when the
\* mover's array, after the write, reproduces the solution cell by cell;
\* otherwise the match stays Playing with the write applied and no gameOver is
\* emitted.
C2_FinishIffSolution ==
  [][\A id \in DOMAIN matches : \A s \in SlotIds(matches[id]), mv \in PlayInputs :
       MakeMove(s, id, mv.index, mv.value)
       => LET k == KeyOf(matches[id], s)
              after == AfterWrite(matches[id], s, mv)
          IN IF Reproduces(after, matches[id].solution)
             THEN /\ id \notin DOMAIN matches'
                  /\ Cardinality(Emitted(out', id)) = 1
             ELSE /\ id \in DOMAIN matches'
                  /\ matches'[id].status = "playing"
                  /\ matches'[id][k].progress = after
                  /\ Emitted(out', id) = {}
                  /\ gameOvers'[id] = 0]_vars

\* a slot's board has no blank cell left, one digit is wrong, and the match
\* is still Playing
C2_Witness ==
  \E id \in DOMAIN matches, k \in Slots :
    /\ Len(matches[id][k].progress) = Len(matches[id].solution)
    /\ NonBlank(matches[id][k].progress) = Len(matches[id].solution)
    /\ matches[id].status = "playing"
    /\ Len(out) = 1 /\ out[1].type = "playerProgress"

\* ------------------------------------------------------------ C6
\* C6: both slots' progress arrays keep the length of the puzzle and of the
\* solution.
C6_ProgressLength ==
  \A id \in DOMAIN matches, k \in Slots :
    /\ Len(matches[id].puzzle) = Len(matches[id].solution)
    /\ Len(matches[id][k].progress) = Len(matches[id].puzzle)

\* ------------------------------------------------------------ C5
MatchSlots == {<<id, k>> : id \in DOMAIN matches, k \in Slots}

\* C5: a persistent id occupies at most one slot over all matches of the
\* registry.
C5_OneSlotPerPid ==
  \A a, b \in MatchSlots :
    matches[a[1]][a[2]].pid = matches[b[1]][b[2]].pid => a = b

\* ------------------------------------------------------------ C8
\* C8: a pending grace timer of a match in the registry leads to the match
\* being out of the registry or the timer being cancelled by a rejoin; and
\* when the timer fires on a match still in the registry, exactly one gameOver
\* is emitted, with reason "opponent_disconnected" and the connection of the
\* other slot as winner, and the match is removed.
C8_GraceExpiryForfeits ==
  /\ \A id \in MatchIds, k \in Slots :
       (id \in DOMAIN matches /\ timers[id][k] > 0)
         ~> (id \notin DOMAIN matches \/ timers[id][k] = 0)
  /\ [][\A id \in DOMAIN matches, k \in Slots :
          GraceTimer(id, k) =>
            /\ id \notin DOMAIN matches'
            /\ gameOvers'[id] = 1
            /\ out' = <<[type |-> "gameOver", matchId |-> id, to |-> rooms[id],
                         winner |-> matches[id][IF k = "p1" THEN "p2" ELSE "p1"].id,
                         winnerName |-> "Anonymous",
                         reason |-> "opponent_disconnected"]>>]_vars

\* a grace timer expired with nobody back: the connection of the other slot
\* got the win
C8_Witness ==
  /\ Len(out) = 1 /\ out[1].type = "gameOver"
  /\ out[1].reason = "opponent_disconnected"
  /\ out[1].matchId \notin DOMAIN matches
  /\ gameOvers[out[1].matchId] = 1
  /\ conn[out[1].winner] = "connected"
  /\ out[1].to = {out[1].winner}
  /\ \E s \in SocketIds : conn[s] = "disconnected"
\* ------------------------------------------------------------ C11
\* the tickets of a queue that connection s does not own, in order
RECURSIVE Without(_, _)
Without(q, s) ==
  IF q = <<>> THEN <<>>
  ELSE (IF Head(q).id = s THEN <<>> ELSE <<Head(q)>>) \o Without(Tail(q), s)

\* C11: a leaveMatch or disconnect of a connection that is in no match takes
\* its tickets out of every queue and leaves the others in place and in
\* order, starts no timer and touches no match; removing again from the
\* result changes nothing.
C11_TicketRemoved ==
  [][\A s \in SocketIds :
       (Bound(s) = {} /\ (LeaveMatch(s) \/ Disconnect(s)))
       => /\ \A k \in Modes :
               /\ waitingQueues'[k] = Without(waitingQueues[k], s)
               /\ RemoveFirst(waitingQueues'[k], s) = waitingQueues'[k]
          /\ timers' = timers
          /\ matches' = matches
          /\ out' = <<>>]_vars

\* before any pairing a connection has gone, no ticket of a gone connection
\* is left, and another connection's ticket still waits
C11_Witness ==
  /\ created = 0
  /\ out = <<>>
  /\ \E s \in SocketIds : conn[s] = "disconnected"
  /\ \A t \in Tickets : conn[waitingQueues[t[1]][t[2]].id] = "connected"
  /\ lobbyStats.waitingPlayers = 1
\* ------------------------------------------------------------ C13
\* every puzzle a generator can draw
Draws == generateCustom \cup getSudoku

\* the last ticket of the requested queue has the requester's persistent id
SelfPair(s, mode, playerId) ==
  LET queue == waitingQueues[GridMode(mode)]
  IN Len(queue) > 0 /\ queue[Len(queue)].pid = OrElse(playerId, s)

\* C13 as stated: on equal persistent ids no match is created and the queues
\* are exactly as they were before the request.
C13_CandidatePushedBack ==
  [][\A s \in SocketIds, mode \in ModeInputs, name \in NameInputs, g \in Draws :
       \A playerId \in IdInputs :
         (SelfPair(s, mode, playerId) /\ FindMatch(s, mode, name, playerId, g))
         => /\ matches' = matches /\ created' = created
            /\ waitingQueues' = waitingQueues]_vars

\* ------------------------------------------------------------ C14
\* the events of the last handler addressed to connection s alone
RepliesTo(events, s) == {i \in 1..Len(events) : events[i].to = {s}}

\* a matchFound of findMatch, with its fields, for the given role
IsFound(e, mode, role) ==
  /\ e.type = "matchFound"
  /\ DOMAIN e = {"type", "to", "matchId", "puzzle", "mode", "player", "opponentName"}
  /\ e.mode = GridMode(mode)
  /\ e.player = role

\* C14 as stated: every findMatch is answered to the requester with exactly
\* one waiting or matchFound.
C14_AlwaysAnswered ==
  [][\A s \in SocketIds, mode \in ModeInputs, name \in NameInputs, g \in Draws :
       \A playerId \in IdInputs :
         FindMatch(s, mode, name, playerId, g)
         => /\ Cardinality(RepliesTo(out', s)) = 1
            /\ \A i \in RepliesTo(out', s) :
                 \/ out'[i] = [type |-> "waiting", to |-> {s}, mode |-> GridMode(mode)]
                 \/ \E role \in Slots : IsFound(out'[i], mode, role)]_vars

\* C14 amended: the handler's reply to the requester is exactly one event,
\* waiting(mode) or the matchFound of role p2, and it is the last event the
\* handler emits; the only other event is the matchFound of role p1 for the
\* ticket's owner; when the ticket popped from the queue has the requester's
\* persistent id, nothing is emitted.
C14_AnsweredUnlessSelfPair ==
  [][\A s \in SocketIds, mode \in ModeInputs, name \in NameInputs, g \in Draws :
       \A playerId \in IdInputs :
         FindMatch(s, mode, name, playerId, g)
         => IF SelfPair(s, mode, playerId) THEN out' = <<>>
            ELSE \/ out' = <<[type |-> "waiting", to |-> {s}, mode |-> GridMode(mode)]>>
                 \/ /\ Len(out') \in {1, 2}
                    /\ IsFound(out'[Len(out')], mode, "p2")
                    /\ out'[Len(out')].to = {s}
                    /\ Len(out') = 2 => IsFound(out'[1], mode, "p1")]_vars

\* a pairing answered both connections with matchFound, the requester as p2
C14_Witness ==
  /\ Len(out) = 2
  /\ out[1].type = "matchFound" /\ out[1].player = "p1"
  /\ out[2].type = "matchFound" /\ out[2].player = "p2"
  /\ out[2].matchId \in DOMAIN matches
  /\ out[2].to = {matches[out[2].matchId].p2.id}
\* ------------------------------------------------------------ C15
\* an error reply to connection s
ErrorTo(s, message) == <<[type |-> "error", to |-> {s}, message |-> message]>>

\* C15: a rejoinMatch for a match id that is not in the registry is answered
\* with the NotFound error, one whose playerId is the persistent id of neither
\* slot with the NotParticipant error; either way no slot is rebound, no
\* timer cancelled, and queues, registry and rooms are unchanged.
C15_RejoinErrors ==
  [][\A s \in SocketIds, id \in MatchIds, playerId \in IdInputs :
       RejoinMatch(s, id, playerId)
       => /\ id \notin DOMAIN matches
             => /\ out' = ErrorTo(s, "Match not found or expired")
                /\ UNCHANGED <<matches, timers, waitingQueues, rooms, lobbyStats>>
          /\ (id \in DOMAIN matches /\ playerId \notin {matches[id].p1.pid, matches[id].p2.pid})
             => /\ out' = ErrorTo(s, "Not a participant in this match")
                /\ UNCHANGED <<matches, timers, waitingQueues, rooms, lobbyStats>>]_vars

\* a rejoin for a match of the registry was turned down while a slot of it
\* was in its grace period, and the timer is still pending
C15_Witness ==
  /\ Len(out) = 1 /\ out[1].type = "error"
  /\ out[1].message = "Not a participant in this match"
  /\ \E id \in DOMAIN matches, k \in Slots : InGrace(id, k)
\* ------------------------------------------------------------ C16
\* C16: a successful rejoin binds the slot to the new connection and leaves
\* no timer pending for it; from then on the new connection's moves go to
\* that slot, and the slot's previous connection is bound to no slot of the
\* match, so that its makeMove and leaveMatch are those of a stranger; a
\* grace timer only ever fires for a slot whose connection is gone.
C16_RejoinRebinds ==
  [][\A id \in DOMAIN matches :
       /\ \A s \in SocketIds, playerId \in IdInputs :
            LET k == KeyOfPid(matches[id], playerId)
                previous == matches[id][k].id
            IN (k # "" /\ RejoinMatch(s, id, playerId))
               => /\ matches'[id][k].id = s
                  /\ timers'[id][k] = 0
                  /\ KeyOf(matches'[id], s) = k
                  /\ previous # s => KeyOf(matches'[id], previous) = ""
       /\ \A k \in Slots :
            GraceTimer(id, k) => conn[matches[id][k].id] = "disconnected"]_vars
\* ------------------------------------------------------------ C17
\* C17: a makeMove that names a match that is not in the registry (unknown or
\* finished and removed), or that comes from a connection bound to neither
\* slot of the named match, changes no progress array, no queue and not the
\* registry, and emits nothing.
C17_StaleMoveIgnored ==
  [][\A s \in SocketIds, id \in MatchIds, mv \in MoveInputs :
       (/\ id \notin DOMAIN matches \/ s \notin SlotIds(matches[id])
        /\ MakeMove(s, id, mv.index, mv.value))
       => /\ out' = <<>>
          /\ UNCHANGED <<matches, waitingQueues, lobbyStats, gameOvers, rooms, timers>>]_vars

\* a match is being played, a connected stranger to it exists, another match
\* id names nothing, and the last handler emitted nothing
C17_Witness ==
  /\ out = <<>>
  /\ moves = 0
  /\ \E id \in DOMAIN matches, s \in SocketIds :
       /\ conn[s] = "connected"
       /\ s \notin SlotIds(matches[id])
       /\ \A k \in Slots : conn[matches[id][k].id] = "connected"
\* ------------------------------------------------------------ C18
\* C18: the gameOver of a forfeit, by leaveMatch or by an expired grace
\* timer, names as winner the connection bound to the slot opposite the one
\* that left, which is not the connection of the slot that left, and the
\* match is out of the registry after the same step.
ForfeitOver(e, id, k) ==
  /\ e.type = "gameOver"
  /\ e.matchId = id
  /\ e.reason = "opponent_disconnected"
  /\ e.winner = matches[id][Other(k)].id
  /\ e.winner # matches[id][k].id

C18_ForfeitNamesOpponent ==
  [][\A id \in DOMAIN matches :
       /\ \A s \in SlotIds(matches[id]) :
            LeaveMatch(s)
            => /\ \E i \in 1..Len(out') : ForfeitOver(out'[i], id, KeyOf(matches[id], s))
               /\ id \notin DOMAIN matches'
       /\ \A k \in Slots :
            GraceTimer(id, k)
            => /\ Len(out') = 1
               /\ ForfeitOver(out'[1], id, k)
               /\ id \notin DOMAIN matches']_vars
\* ------------------------------------------------------------ C19
\* C19: after every handler has run to completion the lobbyStats snapshot
\* broadcast last is the snapshot of the state the handler left: the number
\* of matches in the registry, the waiting counts in total and per mode, and
\* the two percentages of every playing match.
C19_StatsCurrent ==
  /\ lobbyStats.activeMatches = Cardinality(DOMAIN matches)
  /\ lobbyStats.waitingPlayers = SumLen(waitingQueues, Modes)
  /\ \A k \in Modes : lobbyStats.waitingByMode[k] = Len(waitingQueues[k])
  /\ lobbyStats.liveMatches =
       {LiveMatch(id, matches[id]) : id \in {i \in DOMAIN matches : matches[i].status = "playing"}}

\* the first match is over, a player waits again, and nobody is left in a
\* match: enqueue, pairing and finish have all been broadcast
C19_Witness ==
  /\ gameOvers[1] >= 1
  /\ lobbyStats.activeMatches = 0
  /\ lobbyStats.waitingPlayers = 1
  /\ \E s \in SocketIds : conn[s] = "disconnected"
\* ------------------------------------------------------------ C20
\* C20: in the lobbyStats snapshot every playing match's entry carries, for
\* each slot, floor(100 * (non-blank cells of the slot's progress - given
\* cells) / (puzzle length - given cells)), and 0 when the puzzle has no
\* blank cell.
Percent(match, k) ==
  LET toFill == Len(match.puzzle) - match.initialFilled
  IN IF toFill = 0 THEN 0
     ELSE (100 * (NonBlank(match[k].progress) - match.initialFilled)) \div toFill

C20_ProgressPercent ==
  \A e \in lobbyStats.liveMatches :
    /\ e.id \in DOMAIN matches
    /\ e.p1Progress = Percent(matches[e.id], "p1")
    /\ e.p2Progress = Percent(matches[e.id], "p2")
\* ------------------------------------------------------------ C21
\* C21: a findMatch whose mode is none of "4", "6", "9", "9expert" is
\* handled as the same request for mode "9" is: every step it can take is a
\* step of that request, and no queue but the "9" queue changes.
C21_InvalidModeIsNine ==
  [][\A s \in SocketIds, mode \in ModeInputs \ Modes, name \in NameInputs, g \in Draws :
       \A playerId \in IdInputs :
         FindMatch(s, mode, name, playerId, g)
         => /\ FindMatch(s, "9", name, playerId, g)
            /\ \A k \in Modes \ {"9"} : waitingQueues'[k] = waitingQueues[k]]_vars

\* a "9" match was made while a ticket waits in another queue
C21_Witness ==
  /\ waitingQueues["4"] # <<>>
  /\ \E id \in DOMAIN matches : matches[id].mode = "9"
  /\ Len(out) = 2
\* ------------------------------------------------------------ C22
\* C22: a makeMove accepted from the connection bound to slot k of match M
\* leaves every queue and every other match of the registry as they were;
\* of M, while it stays in the registry, nothing differs but the cell of
\* slot k's progress array the move names (a move that completes the
\* solution takes M out of the registry).
SameBut(before, after, index) ==
  \A i \in 1..Len(before) : i # index + 1 => (i <= Len(after) /\ after[i] = before[i])

C22_MoveFrame ==
  [][\A id \in DOMAIN matches : \A s \in SlotIds(matches[id]), mv \in PlayInputs :
       MakeMove(s, id, mv.index, mv.value)
       => LET k == KeyOf(matches[id], s)
          IN /\ waitingQueues' = waitingQueues
             /\ \A other \in DOMAIN matches \ {id} :
                  other \in DOMAIN matches' /\ matches'[other] = matches[other]
             /\ DOMAIN matches' \subseteq DOMAIN matches
             /\ id \in DOMAIN matches'
                => /\ matches'[id] = [matches[id] EXCEPT ![k].progress = matches'[id][k].progress]
                   /\ SameBut(matches[id][k].progress, matches'[id][k].progress, mv.index)]_vars

\* two matches are in the registry, and in one of them the slots' arrays
\* have come apart by a move
C22_Witness ==
  /\ Cardinality(DOMAIN matches) = 2
  /\ moves >= 1
  /\ \E id \in DOMAIN matches : matches[id].p1.progress # matches[id].p2.progress
  /\ \E id \in DOMAIN matches : matches[id].p1.progress = matches[id].p2.progress
\* ------------------------------------------------------------ C23
\* C23: in every match of the registry, at every position where the puzzle
\* has a digit, both slots' progress arrays hold that digit.
C23_CluesKept ==
  \A id \in DOMAIN matches : \A k \in Slots :
    \A i \in 1..Len(matches[id].puzzle) :
      matches[id].puzzle[i] # "-" => matches[id][k].progress[i] = <<matches[id].puzzle[i]>>
\* ------------------------------------------------------------ C24
\* the cell of row r, column c (from 0) of a board string
At(str, size, r, c) == str[r * size + c + 1]

\* digit d occurs exactly once among the cells ps of the string
Once(str, size, d, ps) ==
  Cardinality({p \in ps : At(str, size, p[1], p[2]) = ToString(d)}) = 1

\* C24: the solution generateCustom returns for a 4x4 board with 2x2 boxes
\* or a 6x6 board with 2x3 boxes holds every digit 1..N exactly once in every
\* row, every column and every box, whatever the random numbers were.
C24_SolutionIsSudoku ==
  gen.pc = "done"
  => LET n == gen.size
         lines == 0..(n - 1)
     IN \A d \in 1..n :
          /\ \A r \in lines : Once(gen.solution, n, d, {<<r, c>> : c \in lines})
          /\ \A c \in lines : Once(gen.solution, n, d, {<<r, c>> : r \in lines})
          /\ \A br \in 0..((n \div gen.boxRows) - 1), bc \in 0..((n \div gen.boxCols) - 1) :
               Once(gen.solution, n, d,
                    {<<r, c>> : r \in (br * gen.boxRows)..(br * gen.boxRows + gen.boxRows - 1),
                                c \in (bc * gen.boxCols)..(bc * gen.boxCols + gen.boxCols - 1)})

\* a 6x6 board has been generated
C24_Witness == gen.pc = "done" /\ gen.size = 6 /\ gen.boxRows = 2 /\ gen.boxCols = 3
\* ------------------------------------------------------------ C25
\* C25: a run of generateCustom for a 4x4 or a 6x6 board comes to its end,
\* solve has then returned true and the solution string has a digit 1..N in
\* every one of its N x N cells.
C25_FillTerminates ==
  /\ [](gen.pc # "idle" => <>(gen.pc = "done"))
  /\ [](gen.pc = "done"
         => /\ gen.ok
            /\ Len(gen.solution) = gen.size * gen.size
            /\ \A i \in 1..Len(gen.solution) : gen.solution[i] # "0")

\* a 6x6 run has ended after more random draws than a run without a dead end
\* makes: 5 per cell and 35 for the positions
C25_Witness == gen.pc = "done" /\ gen.size = 6 /\ gen.k > 36 * 5 + 35
\* ------------------------------------------------------------ C26
\* C26: every cell of a generated puzzle that is not blank holds the digit
\* the solution holds in the same place.
C26_PuzzleWithinSolution ==
  gen.pc = "done"
  => /\ Len(gen.puzzle) = Len(gen.solution)
     /\ \A i \in 1..Len(gen.puzzle) :
          gen.puzzle[i] # "-" => gen.puzzle[i] = gen.solution[i]

\* a 4x4 puzzle has been generated with a clue in its first cell and a blank
\* in its last
C26_Witness ==
  /\ gen.pc = "done" /\ gen.size = 4
  /\ gen.puzzle[1] # "-" /\ gen.puzzle[16] = "-"

\* ------------------------------------------------------------ C27
\* the number of blank cells of a puzzle string
Blanks(puzzle) == Cardinality({i \in 1..Len(puzzle) : puzzle[i] = "-"})

\* C27: a generated puzzle has exactly N * N - clueCount blank cells: 8 on
\* the 4x4 board of mode "4" and 18 on the 6x6 board of mode "6".
C27_BlankCount ==
  gen.pc = "done"
  => /\ Blanks(gen.puzzle) = gen.size * gen.size - gen.clues
     /\ gen.size = 4 => Blanks(gen.puzzle) = 8
     /\ gen.size = 6 => Blanks(gen.puzzle) = 18

\* a 6x6 puzzle with 18 clues has been generated
C27_Witness == gen.pc = "done" /\ gen.size = 6 /\ gen.clues = 18 /\ Blanks(gen.puzzle) = 18

\* ------------------------------------------------------------ C28
\* the digits 1..size as characters
DigitChars(size) == {ToString(d) : d \in 1..size}

\* C28: puzzle and solution of a generator-backed mode both have size * size
\* characters, the solution's all digits 1..size, the puzzle's digits 1..size
\* or the blank marker.
C28_StringShape ==
  gen.pc = "done"
  => /\ Len(gen.puzzle) = gen.size * gen.size
     /\ Len(gen.solution) = gen.size * gen.size
     /\ \A i \in 1..Len(gen.solution) : gen.solution[i] \in DigitChars(gen.size)
     /\ \A i \in 1..Len(gen.puzzle) : gen.puzzle[i] \in DigitChars(gen.size) \cup {"-"}

\* a 6x6 puzzle has been generated that shows the digit 6 and a blank
C28_Witness ==
  /\ gen.pc = "done" /\ gen.size = 6
  /\ \E i, j \in 1..Len(gen.puzzle) : gen.puzzle[i] = "6" /\ gen.puzzle[j] = "-"
\* ------------------------------------------------------------ C29
\* the opponent of slot playerKey of the match is in its grace period
OpponentInGrace(id, playerKey) ==
  matches[id].timeouts[Other(playerKey)] /\ timers[id][Other(playerKey)] > 0

\* C29: a disconnect finishes no match (every match stays in the registry,
\* Playing, with the progress it had, and no gameOver is emitted); while a
\* slot is in its grace period a move of the other slot's connection is
\* applied, and when it completes the solution the match ends with one
\* gameOver "solved" naming the mover; and a grace timer that expires on a
\* match no longer in the registry emits nothing and changes nothing.
C29_DisconnectDefers ==
  [][/\ \A s \in SocketIds :
          Disconnect(s) =>
            /\ DOMAIN matches' = DOMAIN matches
            /\ \A id \in DOMAIN matches :
                 /\ matches'[id].status = "playing"
                 /\ \A k \in Slots : matches'[id][k] = matches[id][k]
            /\ gameOvers' = gameOvers
            /\ out' = <<>>
     /\ \A s \in SocketIds, id \in DOMAIN matches, mv \in MoveInputs :
          (MakeMove(s, id, mv.index, mv.value) /\ KeyOf(matches[id], s) # ""
             /\ OpponentInGrace(id, KeyOf(matches[id], s))) =>
            LET k == KeyOf(matches[id], s)
                written == ArraySet(matches[id][k].progress, mv.index,
                                    IF mv.value = <<>> THEN Blank ELSE mv.value)
            IN IF Join(written) = matches[id].solution
               THEN /\ id \notin DOMAIN matches'
                    /\ Len(out') = 1 /\ out'[1].type = "gameOver"
                    /\ out'[1].reason = "solved" /\ out'[1].winner = s
                    /\ gameOvers'[id] = 1
               ELSE /\ id \in DOMAIN matches'
                    /\ matches'[id].status = "playing"
                    /\ matches'[id][k].progress = written
     /\ \A id \in MatchIds \ DOMAIN matches, k \in Slots :
          GraceTimer(id, k) =>
            /\ out' = <<>>
            /\ UNCHANGED <<conn, waitingQueues, matches, created, rooms, lobbyStats,
                           gameOvers>>]_vars

\* a slot is in its grace period, the match is still Playing and the last
\* event is the progress of a move its opponent made meanwhile
C29_Witness ==
  \E id \in DOMAIN matches, k \in Slots :
    /\ OpponentInGrace(id, Other(k))
    /\ matches[id].status = "playing"
    /\ conn[matches[id][k].id] = "disconnected"
    /\ Len(out) = 1 /\ out[1].type = "playerProgress" /\ out[1].matchId = id
    /\ out[1].playerId = matches[id][Other(k)].id
    /\ matches[id][Other(k)].progress # Split(matches[id].puzzle)
\* ------------------------------------------------------------ C30
\* C30: a match id enters the registry only in a findMatch step whose
\* (coerced) mode has a waiting ticket with a persistent id other than the
\* requester's; the new match has that mode and status Playing, the ticket's
\* owner in slot p1 and the requester in slot p2, both progress arrays equal to
\* the puzzle, a given count equal to the number of non-blank puzzle cells, and
\* the ticket is taken out of its queue (the other queues are left alone).
C30_CreatedByPairing ==
  [][\A id \in (DOMAIN matches') \ DOMAIN matches :
       LET match == matches'[id]
       IN \E s \in SocketIds, mode \in ModeInputs, name \in NameInputs, playerId \in IdInputs :
            LET gridMode == GridMode(mode)
                queue == waitingQueues[gridMode]
                ticket == queue[Len(queue)]
            IN /\ FindMatch(s, mode, name, playerId,
                            [puzzle |-> match.puzzle, solution |-> match.solution])
               /\ Len(queue) > 0
               /\ ticket.pid # OrElse(playerId, s)
               /\ match.mode = gridMode
               /\ match.status = "playing"
               /\ match.p1.id = ticket.id /\ match.p1.pid = ticket.pid
               /\ match.p1.name = ticket.name
               /\ match.p2.id = s /\ match.p2.pid = OrElse(playerId, s)
               /\ match.p1.progress = Split(match.puzzle)
               /\ match.p2.progress = Split(match.puzzle)
               /\ match.initialFilled = Len(match.puzzle) - Blanks(match.puzzle)
               /\ waitingQueues' = [waitingQueues EXCEPT
                                      ![gridMode] = SubSeq(queue, 1, Len(queue) - 1)]
               /\ \A i \in 1..Len(waitingQueues'[gridMode]) :
                    waitingQueues'[gridMode][i] # ticket]_vars

\* a request for mode "4" has just been paired with the ticket waiting there
\* while another ticket waits on in the "9" queue
C30_Witness ==
  /\ 1 \in DOMAIN matches /\ matches[1].mode = "4" /\ matches[1].status = "playing"
  /\ matches[1].p1.pid # matches[1].p2.pid
  /\ Len(out) = 2 /\ out[2].type = "matchFound" /\ out[2].player = "p2"
  /\ out[2].to = {matches[1].p2.id}
  /\ waitingQueues["4"] = <<>> /\ waitingQueues["9"] # <<>>
\* ------------------------------------------------------------ C31
\* the array a move leaves in the mover's slot
Touched(id, s, mv) ==
  ArraySet(matches[id][KeyOf(matches[id], s)].progress, mv.index,
           IF mv.value = <<>> THEN Blank ELSE mv.value)

\* C31: an accepted move that does not complete the board leaves the match
\* Playing and emits exactly one playerProgress, whose filled count is the
\* number of non-blank cells of the mover's array (right or wrong, givens
\* included), whose given count is the match's, whose cell index is the index
\* of the move and whose cleared flag is true exactly when the move had no value.
C31_ProgressEvent ==
  [][\A s \in SocketIds, id \in DOMAIN matches, mv \in PlayInputs :
       (/\ MakeMove(s, id, mv.index, mv.value)
        /\ matches[id].status = "playing"
        /\ KeyOf(matches[id], s) # ""
        /\ Join(Touched(id, s, mv)) # matches[id].solution) =>
         /\ id \in DOMAIN matches'
         /\ matches'[id].status = "playing"
         /\ Len(out') = 1
         /\ out'[1].type = "playerProgress"
         /\ out'[1].matchId = id
         /\ out'[1].filled =
              Cardinality({i \in 1..Len(Touched(id, s, mv)) :
                             Touched(id, s, mv)[i] \notin {Blank, Hole}})
         /\ out'[1].initialFilled = matches[id].initialFilled
         /\ out'[1].cellIndex = mv.index
         /\ out'[1].cleared = (mv.value = <<>>)]_vars

\* a slot holds a wrong digit and the event of its last move counts it: the
\* filled count is above the number of cells that agree with the solution
C31_Witness ==
  \E id \in DOMAIN matches, k \in Slots :
    /\ Len(out) = 1 /\ out[1].type = "playerProgress" /\ out[1].matchId = id
    /\ out[1].playerId = matches[id][k].id
    /\ ~out[1].cleared
    /\ out[1].filled = NonBlank(matches[id][k].progress)
    /\ \E i \in 1..Len(matches[id].solution) :
         /\ matches[id][k].progress[i] # Blank
         /\ matches[id][k].progress[i] # <<matches[id].solution[i]>>
\* ------------------------------------------------------------ C32
\* the events of a handler's output that speak of a match's play
PlayEvents(events, id) ==
  {i \in 1..Len(events) :
     events[i].type \in {"gameOver", "playerProgress"} /\ events[i].matchId = id}

\* C32: whatever the order of moves, leaves, disconnects, rejoins and timer
\* expiries, a match has at most one gameOver emitted in all, and once it has
\* been emitted no handler emits a playerProgress or gameOver for the match.
C32_OneGameOver ==
  /\ [](\A id \in MatchIds : gameOvers[id] <= 1)
  /\ [][\A id \in MatchIds :
          /\ Cardinality({i \in PlayEvents(out', id) : out'[i].type = "gameOver"})
               = gameOvers'[id] - gameOvers[id]
          /\ gameOvers[id] >= 1 => PlayEvents(out', id) = {}]_vars

\* the first match was made between connections 1 and 2, it has had its
\* gameOver, both connections have gone, no timer is left and the last
\* handler emitted nothing
C32_Witness ==
  /\ created = 1 /\ 1 \notin DOMAIN matches /\ gameOvers[1] = 1
  /\ conn["1"] = "disconnected" /\ conn["2"] = "disconnected"
  /\ \A s \in SocketIds \ {"1", "2"} : conn[s] = "new"
  /\ timers[1] = [k \in Slots |-> 0]
  /\ out = <<>>
\* ------------------------------------------------------------ C33
\* C33: every per-mode queue holds at most one ticket; a findMatch on a queue
\* that is not empty leaves it empty (the ticket is paired and removed) or, on
\* equal persistent ids, at length one.
C33_OneTicketPerQueue ==
  /\ [](\A mode \in Modes : Len(waitingQueues[mode]) <= 1)
  /\ [][\A s \in SocketIds, mode \in ModeInputs, name \in NameInputs,
           playerId \in IdInputs, g \in generateCustom \cup getSudoku :
          LET queue == waitingQueues[GridMode(mode)]
              after == waitingQueues'[GridMode(mode)]
          IN (FindMatch(s, mode, name, playerId, g) /\ Len(queue) > 0) =>
               IF queue[Len(queue)].pid = OrElse(playerId, s)
               THEN Len(after) = 1 /\ UNCHANGED matches
               ELSE /\ Len(after) = 0
                    /\ \E id \in (DOMAIN matches') \ DOMAIN matches :
                         /\ matches'[id].p1.id = queue[Len(queue)].id
                         /\ matches'[id].p2.id = s]_vars

\* connections 1 and 3 share a persistent id and are both connected; the "9"
\* queue holds one ticket, connection 3's, no match has been made and the
\* last handler emitted nothing
C33_Witness ==
  /\ conn["1"] = "connected" /\ conn["3"] = "connected"
  /\ created = 0
  /\ Len(waitingQueues["9"]) = 1
  /\ waitingQueues["9"][1].id = "3" /\ waitingQueues["9"][1].pid = "a"
  /\ \A mode \in Modes \ {"9"} : waitingQueues[mode] = <<>>
  /\ out = <<>>
\* ------------------------------------------------------------ C34
\* C34: every waiting ticket is owned by a connection that is connected, and a
\* step that adds a match binds both of its slots to connected connections.
C34_TicketsOfConnected ==
  /\ [](\A mode \in Modes : \A i \in 1..Len(waitingQueues[mode]) :
          conn[waitingQueues[mode][i].id] = "connected")
  /\ [][\A id \in (DOMAIN matches') \ DOMAIN matches : \A k \in Slots :
          conn[matches'[id][k].id] = "connected"
          /\ conn'[matches'[id][k].id] = "connected"]_vars

\* a connection has disconnected and a pairing has just been made: both
\* slots of the new match are bound to connected connections
C34_Witness ==
  /\ \E s \in SocketIds : conn[s] = "disconnected"
  /\ 1 \in DOMAIN matches
  /\ Len(out) = 2 /\ out[1].type = "matchFound" /\ out[2].type = "matchFound"
  /\ out[1].to = {matches[1].p1.id} /\ out[2].to = {matches[1].p2.id}
  /\ conn[matches[1].p1.id] = "connected" /\ conn[matches[1].p2.id] = "connected"
\* ------------------------------------------------------------ C35
\* C35 as stated: every slot of a Playing match is bound to a connected
\* connection or to a disconnected one whose grace timer is pending.
C35_NoOrphanSlot ==
  \A id \in DOMAIN matches, k \in Slots :
    matches[id].status = "playing" =>
      \/ conn[matches[id][k].id] = "connected"
      \/ conn[matches[id][k].id] = "disconnected" /\ timers[id][k] > 0
\* ------------------------------------------------------------ C36
\* C36 as stated: in the lobbyStats snapshot last broadcast, the progress
\* percentage of either slot of every live match is an integer from 0 to 100.
C36_PercentInRange ==
  \A live \in lobbyStats.liveMatches :
    live.p1Progress \in 0..100 /\ live.p2Progress \in 0..100
\* ------------------------------------------------------------ C37
\* C37 as stated: the two slots of every match in the registry are bound to
\* two different connection ids and two different persistent ids.
C37_TwoConnections ==
  \A id \in DOMAIN matches :
    /\ matches[id].p1.id # matches[id].p2.id
    /\ matches[id].p1.pid # matches[id].p2.pid
\* ------------------------------------------------------------ C38
\* C38 as stated: when a grace timer expires on a match in the registry, the
\* slot its gameOver names as winner (the other slot) is not itself bound to
\* a disconnected connection with a grace timer pending.
C38_WinnerPresent ==
  [][\A id \in DOMAIN matches, k \in Slots :
       (GraceTimer(id, k) /\ matches[id].status = "playing") =>
         ~(/\ conn[matches[id][Other(k)].id] = "disconnected"
           /\ timers[id][Other(k)] > 0)]_vars
\* ------------------------------------------------------------ C39
\* C39 as stated: when a client leaves the waiting screen with Cancel, no
\* queue of the server holds a ticket of its connection afterwards.
C39_CancelDropsTicket ==
  [][\A s \in SocketIds :
       Cancel(s) =>
         \A mode \in Modes : \A i \in 1..Len(waitingQueues'[mode]) :
           waitingQueues'[mode][i].id # s]_vars
====
